---- MODULE Spec2Model ----
(***************************************************************************)
(* The aggregation and presentation layer of the blog (blog/models.py,     *)
(* blog/views.py): the entity store, the query composer                    *)
(* (PostQuerySet, TagQuerySet), the list-bound comment counter             *)
(* (bulk_load_comments_count, add_comments_count_to_posts), the            *)
(* presenters (serialize_post, serialize_tag) and the page handlers.       *)
(*                                                                         *)
(* Conventions.                                                            *)
(*  - A model instance is a function from attribute names to values; an    *)
(*    attribute that was never set is absent from its DOMAIN, which is     *)
(*    what getattr(obj, name, default) tests.                              *)
(*  - A string is the sequence of its characters ("" is << >>).            *)
(*  - Post p is stored under slug p and was published after every post     *)
(*    with a smaller id, so "-published_at" is descending id.              *)
(*  - The order in which the datastore returns rows that tie on the sort   *)
(*    key is not defined: a request draws the row order of a table         *)
(*    ("scan") freely and sorts stably on top of it.                       *)
(***************************************************************************)
EXTENDS Integers, Sequences, FiniteSets, TLC

MaxPosts == 2
MaxUsers == 2
MaxTags == 2
MaxRows == 3
MaxTitleLen == 2

PopularLimit == 5
TagFilterLimit == 20

VARIABLES posts, tags, likes, post_tags, comments, op, arg, ret, shim_queries

store == <<posts, tags, likes, post_tags, comments>>
request == <<op, arg, ret, shim_queries>>
vars == <<posts, tags, likes, post_tags, comments, op, arg, ret, shim_queries>>

PostIds == 1..MaxPosts
UserIds == 1..MaxUsers
Chars == {"a", "A"}

(* ------------------------------ values ------------------------------ *)

\* Python's None and str, where a field may hold either.
None == [type |-> "NoneType"]
Str(s) == [type |-> "str", value |-> s]

\* getattr(obj, name, default)
Getattr(obj, name, default) == IF name \in DOMAIN obj THEN obj[name] ELSE default

\* obj.name = v
SetAttr(obj, name, v) ==
    [a \in DOMAIN obj \cup {name} |-> IF a = name THEN v ELSE obj[a]]

\* str.lower() on one character and on a string
LowerChar(c) == IF c = "A" THEN "a" ELSE c
Lower(s) == [i \in 1..Len(s) |-> LowerChar(s[i])]

Titles == UNION {[1..n -> Chars] : n \in 1..MaxTitleLen}

\* every order in which the rows of a set of posts can come back
Orders(S) == {s \in [1..Cardinality(S) -> S] : \A x \in S : \E i \in DOMAIN s : s[i] = x}
PostOrders == [S \in SUBSET (1..MaxPosts) |-> Orders(S)]
Perms(S) == PostOrders[S]

Range(s) == {s[i] : i \in DOMAIN s}

Take(s, n) == SubSeq(s, 1, IF Len(s) < n THEN Len(s) ELSE n)

(* --------------------------- the entity store ------------------------ *)

TagIds == DOMAIN tags

LikeRows(p) == {l \in likes : l[1] = p}
CommentRows(p) == {c \in DOMAIN comments : comments[c] = p}
TagRowsOfPost(p) == {r \in post_tags : r[1] = p}
PostRowsOfTag(t) == {r \in post_tags : r[2] = t}

Rows == Cardinality(likes) + Cardinality(post_tags) + Len(comments)

\* a row of blog_post, blog_tag as a fresh instance
PostRow(p) == [id |-> p, slug |-> p]
TagRow(t) == [id |-> t, title |-> tags[t]]

(* ------------------------------ ordering ----------------------------- *)

\* ORDER BY key DESC over rows <<key, row>>, stable on the order they come in
InsertDesc(e, s) ==
    LET n == Cardinality({i \in 1..Len(s) : s[i][1] >= e[1]})
    IN  SubSeq(s, 1, n) \o <<e>> \o SubSeq(s, n + 1, Len(s))

RECURSIVE SortDesc(_)
SortDesc(s) ==
    IF s = <<>> THEN <<>>
    ELSE InsertDesc(s[Len(s)], SortDesc(SubSeq(s, 1, Len(s) - 1)))

OrderByAsc(rows, attr) ==
    LET keyed == [i \in 1..Len(rows) |-> <<0 - rows[i][attr], rows[i]>>]
        sorted == SortDesc(keyed)
    IN  [i \in 1..Len(rows) |-> sorted[i][2]]

\* .order_by("-attr")
OrderByDesc(rows, attr) ==
    LET keyed == [i \in 1..Len(rows) |-> <<rows[i][attr], rows[i]>>]
        sorted == SortDesc(keyed)
    IN  [i \in 1..Len(rows) |-> sorted[i][2]]

\* Meta.ordering = ["-published_at"] of Post, over the posts of base
PostsByDate == [S \in SUBSET (1..MaxPosts) |->
                   CHOOSE s \in Orders(S) : \A i, j \in DOMAIN s : i < j => s[i] > s[j]]
DefaultOrder(base) == PostsByDate[base]

(* --------------------------- PostQuerySet ---------------------------- *)

\* the scalar subquery of with_likes_count: no row (NULL) or one row, cnt
likes_subquery(pk) ==
    LET rows == LikeRows(pk)
    IN  IF rows = {} THEN <<>> ELSE <<Cardinality(rows)>>

comments_subquery(pk) ==
    LET rows == CommentRows(pk)
    IN  IF rows = {} THEN <<>> ELSE <<Cardinality(rows)>>

\* Coalesce(Subquery(rows), default)
Coalesce(rows, default) == IF rows = <<>> THEN default ELSE rows[1]

\* with_likes_count as Count("likes") over post LEFT JOIN likes LEFT JOIN comments LEFT JOIN tags:
\* one joined row per combination, an unmatched side contributing one NULL row
JoinedLikesCount(post) ==
    LET side(S) == IF S = {} THEN 1 ELSE Cardinality(S)
    IN  SetAttr(post, "likes_count",
                Cardinality(LikeRows(post.id)) * side(CommentRows(post.id))
                                               * side(TagRowsOfPost(post.id)))

with_likes_count(post) ==
    SetAttr(post, "likes_count", Coalesce(likes_subquery(post.id), 0))

with_comments_count(post) ==
    SetAttr(post, "comments_count", Coalesce(comments_subquery(post.id), 0))

\* popular with order_by("likes_count")
popular_ascending(base, scan) ==
    OrderByAsc([i \in 1..Len(scan) |-> with_likes_count(PostRow(scan[i]))], "likes_count")

\* PostQuerySet.popular over the posts of base, which the store scans in order scan
popular(base, scan) ==
    OrderByDesc([i \in 1..Len(scan) |-> with_likes_count(PostRow(scan[i]))], "likes_count")

\* Post.objects.annotate(likes_count=Count("likes")), evaluated
get_posts_with_likes ==
    LET order == DefaultOrder(posts)
    IN  [i \in 1..Len(order) |->
            SetAttr(PostRow(order[i]), "likes_count", Cardinality(LikeRows(order[i])))]

\* the collections the page handlers start from
PostsWithTag(t) == {p \in posts : <<p, t>> \in post_tags}
BaseCollections == {posts} \cup {PostsWithTag(t) : t \in TagIds}

(* ---------------------------- TagQuerySet ---------------------------- *)

\* every order in which the rows of blog_tag can come back
TagScans == Orders(TagIds)

\* annotate(posts_with_tag=Count("posts")) on one tag: tag LEFT JOIN post_tags,
\* the non-NULL post ids counted
annotate_posts_with_tag(tag) ==
    SetAttr(tag, "posts_with_tag", Cardinality(PostRowsOfTag(tag.id)))

\* the same over tag INNER JOIN post_tags: a tag no post references has no row
tag_popular_inner_join(scan) ==
    SelectSeq(OrderByDesc([i \in 1..Len(scan) |-> annotate_posts_with_tag(TagRow(scan[i]))],
                          "posts_with_tag"),
              LAMBDA tag : tag.posts_with_tag > 0)

\* TagQuerySet.popular over all tags, which the store scans in order scan
tag_popular(scan) ==
    OrderByDesc([i \in 1..Len(scan) |-> annotate_posts_with_tag(TagRow(scan[i]))],
                "posts_with_tag")

get_tags_with_posts_count(scan) == tag_popular(scan)

\* Prefetch("tags", queryset=Tag.objects.popular()): the tags of post p, in the
\* order of the prefetch queryset
prefetch_tags(p, scan) ==
    SelectSeq(tag_popular(scan), LAMBDA tag : <<p, tag.id>> \in post_tags)

(* --------------------- the list-bound comment counter ---------------- *)

DictGet(d, k, default) == IF k \in DOMAIN d THEN d[k] ELSE default

\* the ids of a collection of instances, in order
Ids(collection) == [i \in 1..Len(collection) |-> collection[i].id]

\* one COUNT query for each id instead of one for the list
get_comments_count_per_post(post_ids) ==
    [dict |-> [p \in posts \cap Range(post_ids) |-> Cardinality(CommentRows(p))],
     queries |-> Len(post_ids)]

\* Count("comments") on a query that also joins the likes: post LEFT JOIN comments
\* LEFT JOIN likes has one row for each pair of a comment and a like
get_comments_count_joined(post_ids) ==
    IF post_ids = <<>>
    THEN [dict |-> <<>>, queries |-> 0]
    ELSE [dict |-> [p \in posts \cap Range(post_ids) |->
                      Cardinality(CommentRows(p))
                      * (IF LikeRows(p) = {} THEN 1 ELSE Cardinality(LikeRows(p)))],
          queries |-> 1]

\* Post.objects.filter(id__in=post_ids).annotate(comments_count=Count("comments"))
\* as a dict, with the number of queries it took: an id__in filter over an empty
\* list is answered without reaching the datastore
get_comments_count_by_post_id(post_ids) ==
    IF post_ids = <<>>
    THEN [dict |-> <<>>, queries |-> 0]
    ELSE [dict |-> [p \in posts \cap Range(post_ids) |-> Cardinality(CommentRows(p))],
          queries |-> 1]

add_comments_count_to_posts(posts_in) ==
    LET counted == get_comments_count_by_post_id(Ids(posts_in))
    IN  [posts |-> [i \in 1..Len(posts_in) |->
                      SetAttr(posts_in[i], "comments_count",
                              DictGet(counted.dict, posts_in[i].id, 0))],
         queries |-> counted.queries]

\* PostQuerySet.bulk_load_comments_count on a queryset whose result cache is self
bulk_load_comments_count(self) ==
    LET posts_ids == Ids(self)
        count_dict == IF posts_ids = <<>> THEN <<>>
                      ELSE [p \in posts \cap Range(posts_ids) |->
                               with_comments_count(PostRow(p)).comments_count]
    IN  [posts |-> [i \in 1..Len(self) |->
                      SetAttr(self[i], "comments_count",
                              DictGet(count_dict, self[i].id, 0))],
         queries |-> IF posts_ids = <<>> THEN 0 ELSE 1]

(* ----------------------------- presenters ---------------------------- *)

serialize_tag(tag) ==
    [title |-> tag.title,
     posts_with_tag |-> Getattr(tag, "posts_count", 0)]

\* the same with the last tag taken for the first
serialize_post_last_tag(post) ==
    [slug |-> post.slug,
     comments_amount |-> Getattr(post, "comments_count", 0),
     likes_amount |-> Getattr(post, "likes_count", 0),
     tags |-> [i \in 1..Len(post.tags) |-> serialize_tag(post.tags[i])],
     first_tag_title |-> IF post.tags # <<>> THEN Str(post.tags[Len(post.tags)].title)
                         ELSE Str(<<>>)]

\* post.tags.all() reads the prefetched list
serialize_post(post) ==
    [slug |-> post.slug,
     comments_amount |-> Getattr(post, "comments_count", 0),
     likes_amount |-> Getattr(post, "likes_count", 0),
     tags |-> [i \in 1..Len(post.tags) |-> serialize_tag(post.tags[i])],
     first_tag_title |-> IF post.tags # <<>> THEN Str(post.tags[1].title) ELSE Str(<<>>)]

(* ------------------------------ views -------------------------------- *)

\* A QuerySet is its result cache, << >> until it is iterated and <<rows>> after.
\* Every QuerySet method returns a clone, and a clone starts with no cache.
NoCache == <<>>
prefetch_related(queryset) == NoCache

\* iterating a queryset: the cached instances, or a new evaluation of the query
Iterate(queryset, evaluated) == IF queryset = NoCache THEN evaluated ELSE queryset[1]

get_all_posts(scan) ==
    LET query == get_posts_with_likes
        \* add_comments_count_to_posts iterates posts (filling its cache) and
        \* sets comments_count on the cached instances
        posts_cached == <<add_comments_count_to_posts(query).posts>>
        returned == prefetch_related(posts_cached)
        iterated == Iterate(returned, query)
    IN  [i \in 1..Len(iterated) |->
            SetAttr(iterated[i], "tags", prefetch_tags(iterated[i].id, scan))]

\* every order in which the rows of blog_post can come back
PostScans == Perms(posts)

\* queryset.prefetch_related("author", Prefetch("tags", ...)).with_likes_count()
\* over the posts the query returns in order `order`
get_posts_with_prefetched_data(order, tag_scan) ==
    [i \in 1..Len(order) |->
        SetAttr(with_likes_count(PostRow(order[i])), "tags",
                prefetch_tags(order[i], tag_scan))]

get_popular_posts(post_scan, tag_scan) ==
    Take(OrderByDesc(get_posts_with_prefetched_data(post_scan, tag_scan), "likes_count"),
         PopularLimit)

\* for post in collection: post.comments_count = comments_count_by_id.get(post.id, 0)
AttachCommentsCount(collection) ==
    LET comments_count_by_id == get_comments_count_by_post_id(Ids(collection)).dict
    IN  [i \in 1..Len(collection) |->
            SetAttr(collection[i], "comments_count",
                    DictGet(comments_count_by_id, collection[i].id, 0))]

Serialized(collection) == [i \in 1..Len(collection) |-> serialize_post(collection[i])]
SerializedTags(collection) == [i \in 1..Len(collection) |-> serialize_tag(collection[i])]

Rendered(template, context) ==
    [status |-> "rendered", template |-> template, context |-> context]

\* Model.objects.get() found no row, or more than one: the exception leaves the view
DoesNotExist(model) == [status |-> "DoesNotExist", model |-> model]
MultipleObjectsReturned(model) == [status |-> "MultipleObjectsReturned", model |-> model]

index(post_scan, tag_scan) ==
    LET popular_tags == Take(get_tags_with_posts_count(tag_scan), PopularLimit)
        most_popular_posts == AttachCommentsCount(get_popular_posts(post_scan, tag_scan))
        fresh_posts ==
            AttachCommentsCount(
                Take(get_posts_with_prefetched_data(DefaultOrder(posts), tag_scan),
                     PopularLimit))
    IN  Rendered("index.html",
                 [most_popular_posts |-> Serialized(most_popular_posts),
                  page_posts |-> Serialized(fresh_posts),
                  popular_tags |-> SerializedTags(popular_tags)])

\* tag_filter with Tag.objects.filter(title=tag_title) in place of get
tag_filter_lenient(tag_title, post_scan, tag_scan) ==
    LET matching == {t \in TagIds : tags[t] = tag_title}
        related == UNION {PostsWithTag(t) : t \in matching}
    IN  Rendered("posts-list.html",
                 [tag |-> tag_title,
                  popular_tags |->
                      SerializedTags(Take(get_tags_with_posts_count(tag_scan), PopularLimit)),
                  posts |->
                      Serialized(AttachCommentsCount(
                          Take(get_posts_with_prefetched_data(DefaultOrder(related), tag_scan),
                               TagFilterLimit))),
                  most_popular_posts |-> Serialized(get_popular_posts(post_scan, tag_scan))])

tag_filter(tag_title, post_scan, tag_scan) ==
    LET matching == {t \in TagIds : tags[t] = tag_title}
    IN  IF matching = {} THEN DoesNotExist("Tag")
        ELSE IF Cardinality(matching) > 1 THEN MultipleObjectsReturned("Tag")
        ELSE
        LET tag == CHOOSE t \in matching : TRUE
            popular_tags == Take(get_tags_with_posts_count(tag_scan), PopularLimit)
            most_popular_posts == get_popular_posts(post_scan, tag_scan)
            related_posts ==
                AttachCommentsCount(
                    Take(get_posts_with_prefetched_data(DefaultOrder(PostsWithTag(tag)),
                                                        tag_scan),
                         TagFilterLimit))
        IN  Rendered("posts-list.html",
                     [tag |-> tags[tag],
                      popular_tags |-> SerializedTags(popular_tags),
                      posts |-> Serialized(related_posts),
                      most_popular_posts |-> Serialized(most_popular_posts)])

\* Comment.objects...order_by("published_at") of one post: its comments, oldest first
CommentsOf(p) == SelectSeq([c \in 1..Len(comments) |-> c], LAMBDA c : comments[c] = p)

post_detail(slug, post_scan, tag_scan) ==
    LET matching == {p \in posts : PostRow(p).slug = slug}
    IN  IF matching = {} THEN DoesNotExist("Post")
        ELSE IF Cardinality(matching) > 1 THEN MultipleObjectsReturned("Post")
        ELSE
        LET p == CHOOSE q \in matching : TRUE
            popular_tags == Take(get_tags_with_posts_count(tag_scan), PopularLimit)
            most_popular_posts == get_popular_posts(post_scan, tag_scan)
            post == SetAttr(with_likes_count(PostRow(p)), "tags", prefetch_tags(p, tag_scan))
            serialized_post ==
                [slug |-> post.slug,
                 comments |-> CommentsOf(p),
                 likes_amount |-> post.likes_count,
                 tags |-> SerializedTags(post.tags)]
        IN  Rendered("post-details.html",
                     [post |-> serialized_post,
                      popular_tags |-> SerializedTags(popular_tags),
                      most_popular_posts |-> Serialized(most_popular_posts)])

(* ------------------------------ Init --------------------------------- *)

CanonTitle(t) == [j \in 1..t |-> "a"]

NoRequest ==
    /\ op = "none"
    /\ arg = <<>>
    /\ ret = <<>>
    /\ shim_queries = 0

Init ==
    /\ posts = PostIds
    /\ tags = [t \in 1..MaxTags |-> CanonTitle(t)]
    /\ likes = {}
    /\ post_tags = {}
    /\ comments = <<>>
    /\ NoRequest

NewRequest ==
    /\ op' = "none"
    /\ arg' = <<>>
    /\ ret' = <<>>
    /\ shim_queries' = 0

(* ------------------------- writes to the store ----------------------- *)

LikePost(p, u) ==
    /\ op = "none"
    /\ Rows < MaxRows
    /\ p \in posts
    /\ <<p, u>> \notin likes
    /\ likes' = likes \cup {<<p, u>>}
    /\ UNCHANGED <<posts, tags, post_tags, comments>>
    /\ UNCHANGED request

AddComment(p) ==
    /\ op = "none"
    /\ Rows < MaxRows
    /\ p \in posts
    /\ comments' = Append(comments, p)
    /\ UNCHANGED <<posts, tags, likes, post_tags>>
    /\ UNCHANGED request

AddPostTag(p, t) ==
    /\ op = "none"
    /\ Rows < MaxRows
    /\ p \in posts
    /\ t \in TagIds
    /\ <<p, t>> \notin post_tags
    /\ post_tags' = post_tags \cup {<<p, t>>}
    /\ UNCHANGED <<posts, tags, likes, comments>>
    /\ UNCHANGED request

(* ------------------------- reads: the post queries ------------------- *)

WithLikesCount ==
    /\ op = "none"
    /\ \E base \in BaseCollections :
        LET order == DefaultOrder(base)
        IN  /\ op' = "with_likes_count"
            /\ arg' = base
            /\ ret' = [i \in 1..Len(order) |-> with_likes_count(PostRow(order[i]))]
            /\ shim_queries' = 0
            /\ UNCHANGED store

Popular ==
    /\ op = "none"
    /\ \E base \in BaseCollections :
        \E scan \in Perms(base) :
            /\ op' = "popular"
            /\ arg' = base
            /\ ret' = popular(base, scan)
            /\ shim_queries' = 0
            /\ UNCHANGED store

GetPostsWithLikes ==
    /\ op = "none"
    /\ op' = "get_posts_with_likes"
    /\ arg' = posts
    /\ ret' = get_posts_with_likes
    /\ shim_queries' = 0
    /\ UNCHANGED store

Materialized == {"with_likes_count", "popular", "get_posts_with_likes"}

\* the two list-bound counters, applied to the collection the request holds
AddCommentsCountToPosts ==
    /\ op \in Materialized
    /\ op' = "add_comments_count_to_posts"
    /\ arg' = ret
    /\ ret' = add_comments_count_to_posts(ret).posts
    /\ shim_queries' = add_comments_count_to_posts(ret).queries
    /\ UNCHANGED store

BulkLoadCommentsCount ==
    /\ op \in Materialized
    /\ op' = "bulk_load_comments_count"
    /\ arg' = ret
    /\ ret' = bulk_load_comments_count(ret).posts
    /\ shim_queries' = bulk_load_comments_count(ret).queries
    /\ UNCHANGED store

\* get_all_posts, its result iterated and presented
GetAllPosts ==
    /\ op = "none"
    /\ \E scan \in TagScans :
        LET iterated == get_all_posts(scan)
        IN  /\ op' = "get_all_posts"
            /\ arg' = posts
            /\ ret' = [posts |-> iterated,
                       presented |-> [i \in 1..Len(iterated) |-> serialize_post(iterated[i])]]
            /\ shim_queries' = 0
            /\ UNCHANGED store

\* the request is answered; nothing it held in memory outlives it
EndRequest ==
    /\ op # "none"
    /\ NewRequest
    /\ UNCHANGED store

NextPosts ==
    \/ \E p \in PostIds, u \in UserIds : LikePost(p, u)
    \/ \E p \in PostIds : AddComment(p)
    \/ \E p \in PostIds, t \in 1..MaxTags : AddPostTag(p, t)
    \/ WithLikesCount
    \/ Popular
    \/ GetPostsWithLikes
    \/ AddCommentsCountToPosts
    \/ BulkLoadCommentsCount
    \/ GetAllPosts
    \/ EndRequest

Spec == Init /\ [][NextPosts]_vars

(* --------------------- reads: the tags and the pages ----------------- *)

Slugs == 1..(MaxPosts + 1)

TagsPopular ==
    /\ op = "none"
    /\ \E scan \in TagScans :
        /\ op' = "tags_popular"
        /\ arg' = TagIds
        /\ ret' = tag_popular(scan)
        /\ shim_queries' = 0
        /\ UNCHANGED store

Index ==
    /\ op = "none"
    /\ \E post_scan \in PostScans, tag_scan \in TagScans :
        /\ op' = "index"
        /\ arg' = <<>>
        /\ ret' = index(post_scan, tag_scan)
        /\ shim_queries' = 0
        /\ UNCHANGED store

TagFilter ==
    /\ op = "none"
    /\ \E tag_title \in Titles, post_scan \in PostScans, tag_scan \in TagScans :
        /\ op' = "tag_filter"
        /\ arg' = tag_title
        /\ ret' = tag_filter(tag_title, post_scan, tag_scan)
        /\ shim_queries' = 0
        /\ UNCHANGED store

PostDetail ==
    /\ op = "none"
    /\ \E slug \in Slugs, post_scan \in PostScans, tag_scan \in TagScans :
        /\ op' = "post_detail"
        /\ arg' = slug
        /\ ret' = post_detail(slug, post_scan, tag_scan)
        /\ shim_queries' = 0
        /\ UNCHANGED store

NextTags ==
    \/ \E p \in PostIds, t \in 1..MaxTags : AddPostTag(p, t)
    \/ TagsPopular
    \/ Index
    \/ TagFilter
    \/ PostDetail
    \/ EndRequest

SpecTags == Init /\ [][NextTags]_vars

(* ------------------------ writes: the tag table ---------------------- *)

\* Tag.clean
clean(title) == Lower(title)

InitTagSave ==
    /\ posts = PostIds
    /\ tags = <<>>
    /\ likes = {}
    /\ post_tags = {}
    /\ comments = <<>>
    /\ NoRequest

\* the admin's add form: full_clean (clean, then the unique check), then save
TagAdminAdd(title) ==
    /\ op = "none"
    /\ Len(tags) < MaxTags
    /\ op' = "admin_add"
    /\ arg' = title
    /\ shim_queries' = 0
    /\ IF clean(title) \in Range(tags)
       THEN /\ ret' = "ValidationError"
            /\ tags' = tags
       ELSE /\ ret' = "saved"
            /\ tags' = Append(tags, clean(title))
    /\ UNCHANGED <<posts, likes, post_tags, comments>>

\* the admin's change form on tag t
TagAdminChange(t, title) ==
    /\ op = "none"
    /\ t \in TagIds
    /\ op' = "admin_change"
    /\ arg' = title
    /\ shim_queries' = 0
    /\ IF \E other \in TagIds \ {t} : tags[other] = clean(title)
       THEN /\ ret' = "ValidationError"
            /\ tags' = tags
       ELSE /\ ret' = "saved"
            /\ tags' = [tags EXCEPT ![t] = clean(title)]
    /\ UNCHANGED <<posts, likes, post_tags, comments>>

\* Tag(title=title).save(), Tag.objects.create(title=title): Tag does not
\* override save, and Model.save runs no clean; unique=True is the store's check
TagSave(title) ==
    /\ op = "none"
    /\ Len(tags) < MaxTags
    /\ op' = "save"
    /\ arg' = title
    /\ shim_queries' = 0
    /\ IF title \in Range(tags)
       THEN /\ ret' = "IntegrityError"
            /\ tags' = tags
       ELSE /\ ret' = "saved"
            /\ tags' = Append(tags, title)
    /\ UNCHANGED <<posts, likes, post_tags, comments>>

NextTagSave ==
    \/ \E title \in Titles : TagAdminAdd(title)
    \/ \E t \in 1..MaxTags, title \in Titles : TagAdminChange(t, title)
    \/ \E title \in Titles : TagSave(title)
    \/ EndRequest

SpecTagSave == InitTagSave /\ [][NextTagSave]_vars

(* ============================== claims =============================== *)

LikingUsers(p) == {u \in UserIds : <<p, u>> \in likes}
CommentsOn(p) == {c \in 1..Len(comments) : comments[c] = p}
TagsOn(p) == {t \in TagIds : <<p, t>> \in post_tags}
PostsUsing(t) == {p \in posts : <<p, t>> \in post_tags}
ShimOps == {"add_comments_count_to_posts", "bulk_load_comments_count"}

\* C1: with_likes_count returns every post of the base collection, each with
\* likes_count present and equal to the number of distinct users who like it
\* (0 when nobody does), whatever tags and comments the post has.
C1_LikesCountIsDistinctLikers ==
    op = "with_likes_count" =>
        /\ Range(Ids(ret)) = arg
        /\ \A i \in 1..Len(ret) :
              /\ "likes_count" \in DOMAIN ret[i]
              /\ ret[i].likes_count = Cardinality(LikingUsers(ret[i].id))

\* a post two users like that also has a comment or a tag, beside a post nobody likes
C1_Witness ==
    /\ op = "with_likes_count"
    /\ \E i, j \in 1..Len(ret) :
          /\ ret[i].likes_count = 2
          /\ CommentsOn(ret[i].id) \cup TagsOn(ret[i].id) # {}
          /\ ret[j].likes_count = 0

\* C2: popular(posts) returns every post of the base collection exactly once,
\* and a post never comes after a post that has fewer likes.
C2_PopularSortedOnce ==
    op = "popular" =>
        /\ Len(ret) = Cardinality(arg)
        /\ Range(Ids(ret)) = arg
        /\ \A i, j \in 1..Len(ret) :
              i < j => Cardinality(LikingUsers(ret[i].id)) >= Cardinality(LikingUsers(ret[j].id))

\* the post with more likes comes first although the store returned it last
C2_Witness ==
    /\ op = "popular"
    /\ Len(ret) = 2
    /\ ret[1].id > ret[2].id
    /\ ret[1].likes_count = 2
    /\ ret[2].likes_count = 1

\* C3: popular(tags) returns every tag exactly once, each with the number of posts
\* that reference it, in non-increasing order of that number; a tag no post
\* references is returned with 0, after every tag that is referenced.
C3_TagsPopularSortedOnce ==
    op = "tags_popular" =>
        /\ Len(ret) = Cardinality(TagIds)
        /\ Range(Ids(ret)) = TagIds
        /\ \A i \in 1..Len(ret) :
              /\ ret[i].title = tags[ret[i].id]
              /\ ret[i].posts_with_tag = Cardinality(PostsUsing(ret[i].id))
        /\ \A i, j \in 1..Len(ret) :
              /\ i < j => ret[i].posts_with_tag >= ret[j].posts_with_tag
              /\ (ret[i].posts_with_tag = 0 /\ ret[j].posts_with_tag > 0) => j < i

\* a referenced tag first and an unreferenced tag last, against the store's order
C3_Witness ==
    /\ op = "tags_popular"
    /\ Len(ret) = MaxTags
    /\ ret[1].posts_with_tag > 0
    /\ ret[Len(ret)].posts_with_tag = 0
    /\ ret[1].id > ret[Len(ret)].id

\* the presentation pp of a post shows the post's tags, and the first of them
PresentsTags(pp, without_tags) ==
    /\ Len(pp.tags) = Cardinality(TagsOn(pp.slug))
    /\ {pp.tags[i].title : i \in 1..Len(pp.tags)} = {tags[t] : t \in TagsOn(pp.slug)}
    /\ TagsOn(pp.slug) = {} => (pp.tags = <<>> /\ pp.first_tag_title = without_tags)
    /\ TagsOn(pp.slug) # {} => pp.first_tag_title = Str(pp.tags[1].title)

IndexPresentsTags(without_tags) ==
    op = "index" =>
        /\ ret.status = "rendered"
        /\ Len(ret.context.page_posts) = Cardinality(posts)
        /\ \A i \in 1..Len(ret.context.page_posts) :
              PresentsTags(ret.context.page_posts[i], without_tags)
        /\ \A i \in 1..Len(ret.context.most_popular_posts) :
              PresentsTags(ret.context.most_popular_posts[i], without_tags)

\* C4 (as amended): presenting a post without tags never raises and gives
\* tags = [] and first_tag_title = "" (the empty string); for a post with tags,
\* first_tag_title is the title of the first tag of the post's tag collection.
C4_FirstTagTitleOrEmptyString == IndexPresentsTags(Str(<<>>))

\* C4 (as claimed): first_tag_title is null for a post without tags.
C4_FirstTagTitleOrNull == IndexPresentsTags(None)

\* the index page presents a post without tags and a post with two tags
C4_Witness ==
    /\ op = "index"
    /\ \E i, j \in 1..Len(ret.context.page_posts) :
          /\ ret.context.page_posts[i].tags = <<>>
          /\ Len(ret.context.page_posts[j].tags) = 2

\* C5: a tag filter for a title no tag has, and a post detail for a slug no post
\* has, end in the not-found outcome with no page context; a tag that exists is
\* rendered with exactly its posts, an empty list when no post references it.
C5_NotFoundIsNotEmptyPage ==
    /\ op = "tag_filter" =>
          /\ (\A t \in TagIds : tags[t] # arg) =>
                (ret.status = "DoesNotExist" /\ "context" \notin DOMAIN ret)
          /\ \A t \in TagIds :
                tags[t] = arg =>
                    /\ ret.status = "rendered"
                    /\ ret.context.tag = arg
                    /\ {ret.context.posts[i].slug : i \in 1..Len(ret.context.posts)} = PostsUsing(t)
                    /\ PostsUsing(t) = {} => ret.context.posts = <<>>
    /\ op = "post_detail" =>
          /\ arg \notin posts => (ret.status = "DoesNotExist" /\ "context" \notin DOMAIN ret)
          /\ arg \in posts => (ret.status = "rendered" /\ ret.context.post.slug = arg)

\* a tag filter for a title that no tag has, in a store whose tags are in use
C5_Witness ==
    /\ op = "tag_filter"
    /\ \A t \in TagIds : tags[t] # arg /\ PostsUsing(t) # {}
    /\ ret.status = "DoesNotExist"

\* C6: on a materialized collection of one post or more, either list-bound
\* counter issues exactly one query; it never issues more than one.
C6_OneQueryWhateverTheSize ==
    op \in ShimOps =>
        /\ Len(arg) >= 1 => shim_queries = 1
        /\ shim_queries <= 1

\* the counter ran on a collection of more than one post
C6_Witness ==
    /\ op \in ShimOps
    /\ Len(arg) > 1
    /\ shim_queries = 1

\* C7: the list-bound counter returns the collection it was given, same members
\* in the same order and otherwise untouched, each carrying comments_count equal
\* to the number of its comments (0 without comments), whatever its likes and tags.
C7_SameCollectionWithCounts ==
    op \in ShimOps =>
        /\ Ids(ret) = Ids(arg)
        /\ \A i \in 1..Len(ret) :
              /\ DOMAIN ret[i] = DOMAIN arg[i] \cup {"comments_count"}
              /\ \A a \in DOMAIN arg[i] : ret[i][a] = arg[i][a]
              /\ ret[i].comments_count = Cardinality(CommentsOn(ret[i].id))

\* a liked post with two comments beside a post with none
C7_Witness ==
    /\ op \in ShimOps
    /\ \E i, j \in 1..Len(ret) :
          /\ ret[i].comments_count = 2
          /\ LikingUsers(ret[i].id) # {}
          /\ ret[j].comments_count = 0

\* C8: every tag of popular(tags) is presented with posts_with_tag equal to the
\* number of posts that reference it.
C8_PresentedTagCount ==
    op = "index" =>
        \A i \in 1..Len(ret.context.popular_tags) :
            \E t \in TagIds :
                /\ tags[t] = ret.context.popular_tags[i].title
                /\ ret.context.popular_tags[i].posts_with_tag = Cardinality(PostsUsing(t))

\* C9: every stored tag title equals its own lowercase form.
C9_StoredTitlesLowercase ==
    \A t \in TagIds : tags[t] = Lower(tags[t])

\* C10: every post of the collection get_all_posts returns carries
\* comments_count equal to the number of its comments (an absent count reads
\* as 0), and is presented with that number as comments_amount and its number
\* of likes as likes_amount.
C10_GetAllPostsKeepsCounts ==
    op = "get_all_posts" =>
        \A i \in 1..Len(ret.posts) :
            /\ Getattr(ret.posts[i], "comments_count", 0) = Cardinality(CommentsOn(ret.posts[i].id))
            /\ ret.presented[i].comments_amount = Cardinality(CommentsOn(ret.posts[i].id))
            /\ ret.presented[i].likes_amount = Cardinality(LikingUsers(ret.posts[i].id))

====
